---- MODULE Spec2Model ----
(***************************************************************************)
(* Model of the patent-analysis integration of re4dy-supply-chain:         *)
(*   backend/src/services/ip_screener_live.py  (IPScreenerAPI,             *)
(*       IPScreenerCache, IPScreenerService)                               *)
(*   backend/src/routes/ip_screener.py         (/analyze, legacy route)    *)
(*                                                                         *)
(* Concurrent callers (Procs) each run IPScreenerService.analyze_component *)
(* as a sequence of steps; the steps are the points at which the code      *)
(* touches the shared cache directory or the upstream HTTP service.        *)
(* Time is counted in minutes.  Text is a sequence of symbols.             *)
(***************************************************************************)
EXTENDS Integers, Sequences, FiniteSets, TLC

(***************************************************************************)
(* Program constants                                                       *)
(***************************************************************************)
ttl_hours        == 24      \* IPScreenerCache.__init__ default
throttle_minutes == 5       \* IPScreenerCache.__init__ default
max_retries      == 3       \* IPScreenerAPI.max_retries (IPS_MAX_RETRIES)
MaxTitleLen      == 200     \* submit_query: len(title) > 200
MaxSummaryLen    == 2000    \* submit_query: len(summary) > 2000
\* a variants list with one more entry
NumVariantsPlusOne == 4 + 1
NumVariants      == 4       \* submit_query: the variants list
default_rows     == 25      \* IPScreenerAPI.default_rows (IPS_DEFAULT_ROWS)
max_rows         == 100     \* IPScreenerAPI.max_rows (IPS_MAX_ROWS)

(***************************************************************************)
(* Bounds of the model                                                     *)
(***************************************************************************)
MaxCalls   == 2     \* calls started over a behaviour
MaxTicks   == 4     \* clock advances over a behaviour
MaxCorrupt == 1     \* outside damage done to cache files over a behaviour

Procs == {1, 2}

(***************************************************************************)
(* Text                                                                    *)
(***************************************************************************)
Rep(c, n) == [i \in 1..n |-> c]

RECURSIVE lstrip(_)
lstrip(s) == IF s # <<>> /\ Head(s) = " " THEN lstrip(Tail(s)) ELSE s

RECURSIVE rstrip(_)
rstrip(s) ==
    IF s # <<>> /\ s[Len(s)] = " " THEN rstrip(SubSeq(s, 1, Len(s) - 1)) ELSE s

\* str.strip()
strip(s) == rstrip(lstrip(s))

\* IPScreenerAPI._compute_query_hash: the string that is hashed.  SHA-256 is
\* taken to be injective on it, so the digest is identified with its preimage.
query_string(title, summary, reference) ==
    title \o <<"|">> \o summary \o <<"|">> \o reference

(***************************************************************************)
(* Inputs                                                                  *)
(***************************************************************************)
DefaultReference == <<"RE4DY_VIS">>

\* JSON bodies posted to the /analyze route (component_name, component_description)
RawInputs ==
    { [name |-> <<"a">>,                      desc |-> <<"d">>],
      [name |-> <<" ">>,                      desc |-> <<"d">>],
      [name |-> <<"a">>,                      desc |-> <<>>],
      [name |-> Rep("x", MaxTitleLen + 1),    desc |-> <<"d">>] }

\* rows of the components table read by the legacy route (description is a
\* nullable TEXT column without a length or emptiness constraint)
Components ==
    { [id |-> "1", part_name |-> <<"a">>, description |-> <<>>] }

\* a row of the components table that has a description
DescribedComponents ==
    { [id |-> "2", part_name |-> <<"a">>, description |-> <<"d">>] }

LegacyReference(id) == <<"RE4DY_COMP_", id>>   \* f"RE4DY_COMP_{component_id}"

\* The queries IPScreenerService.analyze_component is called with.
ServiceQueries ==
    << [title |-> <<"a">>, summary |-> <<"d">>, reference |-> DefaultReference],
       [title |-> Rep("x", MaxTitleLen + 1), summary |-> <<"d">>,
        reference |-> DefaultReference],
       [title |-> <<"a">>, summary |-> <<>>, reference |-> LegacyReference("1")],
       [title |-> <<"a">>, summary |-> <<"d">>, reference |-> LegacyReference("2")] >>

QIds == 1..Len(ServiceQueries)

QueryIndex(t, s, r) ==
    CHOOSE i \in QIds :
        ServiceQueries[i] = [title |-> t, summary |-> s, reference |-> r]

HashOf(i) ==
    query_string(ServiceQueries[i].title, ServiceQueries[i].summary,
                 ServiceQueries[i].reference)

\* The cache key of query i: the least index with the same digest.
query_hash(i) ==
    CHOOSE j \in QIds :
        /\ HashOf(j) = HashOf(i)
        /\ \A k \in QIds : HashOf(k) = HashOf(i) => j <= k

Hashes == { query_hash(i) : i \in QIds }

(***************************************************************************)
(* Upstream responses                                                      *)
(***************************************************************************)
Absent == "<absent>"        \* a key the JSON object does not have
NoneInt == -1               \* Python None where a number is expected

NoScore == [has |-> FALSE, val |-> 0]
Score(v) == [has |-> TRUE, val |-> v]       \* v in hundredths

\* patent objects of an upstream result list
RawEP == [publication_number |-> "EP123", patent_number |-> Absent,
          title |-> "T", applicant |-> "A", assignee |-> Absent,
          publication_date |-> "2020-01-01", filing_date |-> Absent,
          score |-> Score(90), relevance_score |-> NoScore]
RawUS == [publication_number |-> Absent, patent_number |-> "US777",
          title |-> Absent, applicant |-> Absent, assignee |-> "B",
          publication_date |-> Absent, filing_date |-> Absent,
          score |-> NoScore, relevance_score |-> NoScore]

NoList   == [kind |-> "absent", items |-> <<>>]
NullList == [kind |-> "null",   items |-> <<>>]
List(xs) == [kind |-> "list",   items |-> xs]

NoData        == [kind |-> "absent", token |-> Absent]
DataDict(tok) == [kind |-> "dict",   token |-> tok]

\* a JSON object body; json = FALSE is a body that is not JSON
EmptyBody ==
    [json |-> TRUE, data |-> NoData, token |-> Absent, session |-> Absent,
     ticket |-> Absent, results |-> NoList, patents |-> NoList]
BadJson == [EmptyBody EXCEPT !.json = FALSE]

StubBodies ==
    { [EmptyBody EXCEPT !.results = List(<<RawEP>>)],
      [EmptyBody EXCEPT !.patents = List(<<RawEP>>)],
      [EmptyBody EXCEPT !.results = NullList],
      [EmptyBody EXCEPT !.data = DataDict("tok")],
      [EmptyBody EXCEPT !.ticket = "tok"],
      EmptyBody,
      BadJson }

TransportException == [kind |-> "exception", status |-> 0, body |-> EmptyBody]
Http(status, body) == [kind |-> "http", status |-> status, body |-> body]

\* what the stub upstream may answer to one request
StubResponses ==
    { Http(200, b) : b \in StubBodies }
        \cup { Http(401, EmptyBody), Http(500, EmptyBody), TransportException }

Truthy(tok) == tok # Absent /\ tok # ""

\* response_data.get('token') or response_data.get('session') or
\* response_data.get('ticket')
FlatToken(body) ==
    IF Truthy(body.token) THEN body.token
    ELSE IF Truthy(body.session) THEN body.session
    ELSE body.ticket

\* submit_query, lines 174-185: the session token read from a JSON object
SessionToken(body) ==
    IF body.data.kind = "dict" THEN body.data.token ELSE FlatToken(body)

\* an iteration that accepts a response only for its session token
TryVariantTokenOnly(resp) ==
    IF resp.kind = "http" /\ resp.status = 200 /\ resp.body.json
       /\ Truthy(SessionToken(resp.body))
      THEN [outcome |-> "token", last_error |-> ""]
      ELSE [outcome |-> "fail", last_error |-> "No session token or results"]

\* submit_query, lines 162-215: one iteration of the variant loop on the
\* response the request got.  outcome: "token" (return token, data),
\* "results" (return None, data) or "fail" (last_error set, continue).
TryVariant(resp) ==
    IF resp.kind = "exception"
      THEN [outcome |-> "fail", last_error |-> "Exception in"]
    ELSE IF resp.status = 200
      THEN IF ~resp.body.json
             THEN [outcome |-> "fail", last_error |-> "Invalid JSON response"]
           ELSE IF Truthy(SessionToken(resp.body))
             THEN [outcome |-> "token", last_error |-> ""]
           ELSE IF resp.body.results.kind # "absent"
                   \/ resp.body.patents.kind # "absent"
             THEN [outcome |-> "results", last_error |-> ""]
           ELSE [outcome |-> "fail",
                 last_error |-> "No session token or results"]
    ELSE IF resp.status = 401
      THEN [outcome |-> "fail", last_error |-> "Authentication failed"]
    ELSE [outcome |-> "fail", last_error |-> "HTTP"]

(***************************************************************************)
(* Normalization and result objects                                        *)
(***************************************************************************)
Coalesce(a, b, default) == IF a # Absent THEN a ELSE IF b # Absent THEN b ELSE default

\* _process_api_response, lines 429-435 (relevance_score in hundredths)
ProcessPatent(patent) ==
    [patent_number    |-> Coalesce(patent.publication_number, patent.patent_number, "UNKNOWN"),
     title            |-> Coalesce(patent.title, Absent, "Patent Title"),
     applicant        |-> Coalesce(patent.applicant, patent.assignee, "Unknown"),
     publication_date |-> Coalesce(patent.publication_date, patent.filing_date, "2024-01-01"),
     relevance_score  |-> IF patent.score.has THEN patent.score.val
                          ELSE IF patent.relevance_score.has
                                 THEN patent.relevance_score.val
                          ELSE 50]

\* response_data.get('results', response_data.get('patents', []))
PatentsOf(body) ==
    IF body.results.kind # "absent" THEN body.results
    ELSE IF body.patents.kind # "absent" THEN body.patents
    ELSE List(<<>>)

NoError == [msg |-> "", last_error |-> "", variant |-> 0]

\* A result dictionary: keys are the keys the dictionary has; a field whose
\* key is missing carries a filler value.  raised # "" stands for an exception
\* leaving the function instead of a dictionary being returned.
BlankResult ==
    [raised |-> "", keys |-> {}, success |-> FALSE, error |-> NoError,
     error_type |-> "", from_cache |-> FALSE, throttled |-> FALSE,
     retry_after |-> NoneInt, patents |-> <<>>, patent_count |-> 0]

\* _process_api_response, lines 420-457
process_api_response(body) ==
    IF PatentsOf(body).kind = "list"
      THEN LET ps == PatentsOf(body).items
           IN  [BlankResult EXCEPT
                  !.keys = {"success", "patents", "patent_count",
                            "component_name", "query_info"},
                  !.success = TRUE,
                  !.patents = [i \in 1..Len(ps) |-> ProcessPatent(ps[i])],
                  !.patent_count = Len(ps)]
      ELSE [BlankResult EXCEPT
              !.keys = {"success", "error", "error_type", "patents"},
              !.success = FALSE,
              !.error = [NoError EXCEPT !.msg = "Error processing API response"],
              !.error_type = "processing"]

\* result['from_cache'] = False / cached_result['from_cache'] = True
WithFromCache(result, b) ==
    [result EXCEPT !.keys = @ \cup {"from_cache"}, !.from_cache = b]

\* a throttled answer whose retry_after is left in minutes
ThrottledResultMinutes ==
    [BlankResult EXCEPT
       !.keys = {"success", "error", "error_type", "throttled", "retry_after",
                 "patents", "from_cache"},
       !.error = [NoError EXCEPT !.msg = "Query throttled"],
       !.error_type = "throttled",
       !.throttled = TRUE,
       !.retry_after = throttle_minutes]

\* analyze_component, lines 343-351
ThrottledResult ==
    [BlankResult EXCEPT
       !.keys = {"success", "error", "error_type", "throttled", "retry_after",
                 "patents", "from_cache"},
       !.error = [NoError EXCEPT !.msg = "Query throttled"],
       !.error_type = "throttled",
       !.throttled = TRUE,
       !.retry_after = throttle_minutes * 60]

\* analyze_component, lines 383-401, for an IPScreenerAPIError(message, error_type)
ErrorResult(error, error_type) ==
    [BlankResult EXCEPT
       !.keys = {"success", "error", "error_type", "retry_after", "patents",
                 "from_cache", "throttled", "query_info"},
       !.error = error,
       !.error_type = error_type,
       !.throttled = (error_type = "rate_limit")]

\* an exception that leaves analyze_component
Raised(exc) == [BlankResult EXCEPT !.raised = exc]

\* caching nothing
ShouldCacheNever(res) == FALSE

\* caching whatever _process_api_response returned
ShouldCacheAlways(res) == TRUE

\* analyze_component, lines 367 and 378: if result.get('success')
ShouldCache(res) == res.success

(***************************************************************************)
(* The cache directory: one file per query hash                            *)
(***************************************************************************)
BlankPatent ==
    [patent_number |-> "", title |-> "", applicant |-> "",
     publication_date |-> "", relevance_score |-> 0]

\* A file's text is a sequence of chunks.  A record written by set() is a
\* head chunk (timestamp and the result without its patent list) followed by
\* one chunk per patent.  The other kinds of head chunk are damaged files.
Chunk(t, ts, result, patent) ==
    [t |-> t, ts |-> ts, result |-> result, patent |-> patent]

Damaged(kind) == <<Chunk(kind, 0, BlankResult, BlankPatent)>>

DamageKinds == {"junk", "list", "nokey", "badts"}

\* a dump that leaves out the patent list
SerializeHeadOnly(ts, result) ==
    <<Chunk("hdr", ts, [result EXCEPT !.patents = <<>>], BlankPatent)>>

\* json.dump({'timestamp': ts, 'result': result}, f)
Serialize(ts, result) ==
    <<Chunk("hdr", ts, [result EXCEPT !.patents = <<>>], BlankPatent)>>
        \o [i \in 1..Len(result.patents) |->
               Chunk("pat", 0, BlankResult, result.patents[i])]

\* json.load(f); cached_data['timestamp']; datetime.fromisoformat(...);
\* cached_data['result'] -- the exception raised, or the record read
Parse(data) ==
    IF data = <<>> THEN [exc |-> "JSONDecodeError", ts |-> 0, result |-> BlankResult]
    ELSE IF data[1].t = "junk"
      THEN [exc |-> "JSONDecodeError", ts |-> 0, result |-> BlankResult]
    ELSE IF data[1].t = "list"
      THEN [exc |-> "TypeError", ts |-> 0, result |-> BlankResult]
    ELSE IF data[1].t = "nokey"
      THEN [exc |-> "KeyError", ts |-> 0, result |-> BlankResult]
    ELSE IF data[1].t = "badts"
      THEN [exc |-> "ValueError", ts |-> 0, result |-> BlankResult]
    ELSE IF /\ data[1].t = "hdr"
            /\ Len(data) = 1 + data[1].result.patent_count
            /\ \A i \in 2..Len(data) : data[i].t = "pat"
      THEN [exc |-> "", ts |-> data[1].ts,
            result |-> [data[1].result EXCEPT
                          !.patents = [i \in 1..(Len(data) - 1) |-> data[i + 1].patent]]]
    ELSE [exc |-> "JSONDecodeError", ts |-> 0, result |-> BlankResult]

\* get(), line 273: except (json.JSONDecodeError, KeyError, ValueError)
CaughtByGet(exc) == exc \in {"JSONDecodeError", "KeyError", "ValueError"}

\* an expiry test that fires for every entry that is read
ExpiredAlways(ts, t) == t >= ts

\* an expiry test that already fires at an age of exactly the TTL
ExpiredAtTtl(ts, t) == t - ts >= ttl_hours * 60

\* get(), line 267: datetime.now() - cached_time > timedelta(hours=ttl_hours)
Expired(ts, t) == t - ts > ttl_hours * 60

\* a window test that still holds at an age of exactly the window
TooRecentAtWindow(ts, t) == t - ts <= throttle_minutes

\* is_throttled(), line 308
TooRecent(ts, t) == t - ts < throttle_minutes

NoLastError == [desc |-> "", variant |-> 0]

NoFile == [exists |-> FALSE, data |-> <<>>]

\* f.write at offset 0 of a file opened with 'w': the text replaces the
\* first Len(text) chunks of what the file holds
Overlay(old, text) ==
    IF Len(old) <= Len(text) THEN text
    ELSE text \o SubSeq(old, Len(text) + 1, Len(old))

(***************************************************************************)
(* Direct calls of the API client and of the cache                         *)
(***************************************************************************)
\* the rows argument of submit_query: None or an integer
NoRows == [has |-> FALSE, val |-> 0]
Rows(v) == [has |-> TRUE, val |-> v]

\* no call of the API client is in progress
ApiIdle ==
    [pc |-> "idle", title |-> <<>>, summary |-> <<>>, rows |-> 0,
     variant |-> 0, last_error |-> NoLastError, sent |-> <<>>,
     resp |-> TransportException, token |-> Absent, won |-> 0,
     error_type |-> "", exc |-> ""]

\* the fingerprints the cache is called with directly
CacheKeys == {query_hash(1), query_hash(3)}

\* history: what a completed set() stored, and when
NoEntry == [valid |-> FALSE, at |-> 0, payload |-> BlankResult]

\* no call of the cache has been made.  A call is recorded with its
\* arguments (fp, payload), the time it was made (at), the file of fp before
\* (pre) and after (post), whether the files of the other fingerprints were
\* left alone (others), what it returned (found, ret, flag) or raised (exc),
\* and what the call before it stored if that was a completed set() of the
\* same fingerprint whose file has not been touched since (entry).
NoCacheCall ==
    [op |-> "none", fp |-> 0, at |-> 0, mode |-> "", payload |-> BlankResult,
     pre |-> NoFile, post |-> NoFile, others |-> TRUE, entry |-> NoEntry,
     found |-> FALSE, ret |-> BlankResult, flag |-> FALSE, exc |-> ""]

(***************************************************************************)
(* State                                                                   *)
(***************************************************************************)
(***************************************************************************)
(* Direct calls of the functions without state                             *)
(***************************************************************************)
MaxFieldLen == 2

\* texts over a letter and the separator character
FieldTexts == UNION { [1..n -> {"a", "|"}] : n \in 0..MaxFieldLen }

Triples ==
    { [title |-> t, summary |-> s, reference |-> r] :
        t \in FieldTexts, s \in FieldTexts, r \in {<<>>, <<"r">>} }

NoTriple == [title |-> <<>>, summary |-> <<>>, reference |-> <<>>]

\* _compute_query_hash, lines 53-56: the SHA-256 digest of the byte string
\* stands for the byte string (two triples get the same digest exactly when
\* their strings are equal, up to a SHA-256 collision)
compute_query_hash(triple) ==
    query_string(triple.title, triple.summary, triple.reference)

\* values of IPS_CACHE_TTL_HOURS and IPS_QUERY_THROTTLE_MINUTES, in the
\* environment; Absent is an unset variable
EnvTtlHours == {Absent, "1", "24", "48"}
EnvThrottleMinutes == {Absent, "1", "5"}

\* int(os.getenv(name, default)) for the values above
IntOf(text, default) ==
    IF text = Absent THEN default
    ELSE IF text = "1" THEN 1
    ELSE IF text = "5" THEN 5
    ELSE IF text = "24" THEN 24
    ELSE 48

NoSettings == [cache_ttl_hours |-> 0, throttle_minutes |-> 0]

\* IPScreenerAPI.__init__, lines 42-43
ApiSettings(env) ==
    [cache_ttl_hours  |-> IntOf(env.ttl, 24),
     throttle_minutes |-> IntOf(env.throttle, 5)]

\* IPScreenerService.__init__, line 321: IPScreenerCache() with the defaults
\* of IPScreenerCache.__init__, lines 246-249
CacheSettings(api_settings) ==
    [cache_ttl_hours  |-> ttl_hours,
     throttle_minutes |-> throttle_minutes]

\* get_status, routes/ip_screener.py lines 266-267
StatusSettings(cache_settings) == cache_settings

PureIdle ==
    [op |-> "", x |-> NoTriple, y |-> NoTriple, hx |-> <<>>, hy |-> <<>>,
     patent |-> RawUS, out |-> BlankResult,
     env |-> [ttl |-> Absent, throttle |-> Absent],
     api |-> NoSettings, cache |-> NoSettings, status |-> NoSettings]

(***************************************************************************)
(* The legacy route /ip-screener/analyze and its database cache            *)
(***************************************************************************)
legacy_cache_hours == 24

\* the rows the legacy route can find, and the componentId values posted to it
\* ("" is a missing componentId, "9" the id of no row)
LegacyComponents == Components \cup DescribedComponents
LegacyRequestIds == { c.id : c \in LegacyComponents } \cup {"", "9"}
NoComponent == [id |-> "", part_name |-> <<>>, description |-> <<>>]

\* query_text = f"{component_name} {component_description}"; the md5 digest
\* of the text stands for the text
LegacyQueryHash(component) ==
    component.part_name \o <<" ">> \o component.description

LegacyKeys == { LegacyQueryHash(c) : c \in LegacyComponents }

\* the draws of random.randint(-5, 15) and random.randint(55, 95)
SimulationDraws == { [count |-> -5, score |-> 55], [count |-> 15, score |-> 95] }

NoLegacyData == [patentCount |-> 0, innovationScore |-> 0, isSimulated |-> FALSE]

\* simulate_ip_analysis, lines 343-374 (no part name of the model contains
\* engine, transmission or brake: base_count = 15)
simulate_ip_analysis(component, draw) ==
    [patentCount     |-> 15 + draw.count,
     innovationScore |-> draw.score,
     isSimulated     |-> TRUE]

RECURSIVE SumRelevance(_)
SumRelevance(patents) ==
    IF patents = <<>> THEN 0
    ELSE patents[1].relevance_score + SumRelevance(Tail(patents))

Min(a, b) == IF a <= b THEN a ELSE b
Max(a, b) == IF a >= b THEN a ELSE b

\* convert_to_legacy_format, lines 184-227 (relevance in hundredths, so
\* avg_relevance * 100 is the mean of the hundredths)
convert_to_legacy_format(api_result, component, draw) ==
    IF ~api_result.success
      THEN simulate_ip_analysis(component, draw)
      ELSE LET patent_count == Len(api_result.patents)
               avg_relevance == SumRelevance(api_result.patents)
                                  \div Max(patent_count, 1)
           IN  [patentCount     |-> patent_count,
                innovationScore |-> Min(95, avg_relevance + patent_count),
                isSimulated     |-> FALSE]

\* writing the database cache whatever the orchestrator returned
LegacyStoresAlways(result) == TRUE

\* line 144: if result.get('success')
LegacyStores(result) == result.success

\* a row of ip_screener_cache; from_success records whether the orchestrator
\* result the row was written from had success = True
NoRow == [present |-> FALSE, expires_at |-> 0, is_simulation |-> FALSE,
          data |-> NoLegacyData, from_success |-> FALSE]

\* the answer of the legacy route; api_success records the success of the
\* orchestrator result it was converted from
NoResponse == [status |-> 0, error |-> "", cached |-> FALSE, hasData |-> FALSE,
               data |-> NoLegacyData, api_success |-> FALSE]

LegacyIdle == [pc |-> "idle", component |-> NoComponent, response |-> NoResponse]

VARIABLES
    files,        \* hash -> [exists, data]: the file of the cache directory
    now,          \* the clock, minutes
    ticks, calls, corrupts,
    pc,           \* proc -> position in the call
    qid,          \* proc -> index of the query of its call
    variant,      \* proc -> the variant the probing loop is at
    last_error,   \* proc -> submit_query's last_error
    result,       \* proc -> the value its call returns
    wts,          \* proc -> set(): cached_data['timestamp']
    unlinked,     \* proc -> set(): the file it holds open was deleted
    attempts,     \* proc -> history: requests sent by the call's submit_query
    wrote,        \* proc -> history: the call truncated or wrote a cache file
    removed,      \* proc -> history: the call deleted a cache file
    lastSubmit,   \* hash -> history: time of the latest upstream submission,
                  \*         while it is less than a throttle window ago
    lastLive,     \* hash -> history: patents of the latest completed set()
                  \*         since the file was last deleted
    api,          \* a direct call of IPScreenerAPI.submit_query / get_results
    cacheCall,    \* a direct call of IPScreenerCache.get / set / is_throttled
    db,           \* legacy query hash -> its row of ip_screener_cache
    legacy,       \* the request the legacy route is serving, and its answer
    pure          \* a direct call of a function without state

vars == <<files, now, ticks, calls, corrupts, pc, qid, variant, last_error,
          result, wts, unlinked, attempts, wrote, removed, lastSubmit, lastLive,
          api, cacheCall, db, legacy, pure>>

procVars == <<pc, qid, variant, last_error, result, wts, unlinked, attempts,
              wrote, removed>>
legacyVars == <<db, legacy>>
directVars == <<api, cacheCall, legacyVars, pure>>
\* what a step of analyze_component leaves alone
envVars  == <<now, ticks, corrupts, directVars>>

Init ==
    /\ files = [h \in Hashes |-> NoFile]
    /\ now = 0
    /\ ticks = 0
    /\ calls = 0
    /\ corrupts = 0
    /\ pc = [p \in Procs |-> "idle"]
    /\ qid = [p \in Procs |-> 1]
    /\ variant = [p \in Procs |-> 0]
    /\ last_error = [p \in Procs |-> NoLastError]
    /\ result = [p \in Procs |-> BlankResult]
    /\ wts = [p \in Procs |-> 0]
    /\ unlinked = [p \in Procs |-> FALSE]
    /\ attempts = [p \in Procs |-> <<>>]
    /\ wrote = [p \in Procs |-> FALSE]
    /\ removed = [p \in Procs |-> FALSE]
    /\ lastSubmit = [h \in Hashes |-> NoneInt]
    /\ lastLive = [h \in Hashes |-> <<>>]
    /\ api = ApiIdle
    /\ cacheCall = NoCacheCall
    /\ db = [k \in LegacyKeys |-> NoRow]
    /\ legacy = LegacyIdle
    /\ pure = PureIdle

\* every caller using the file of the first query
HShared(p) == query_hash(1)

\* line 256: cache_file = f"{query_hash}.json"
H(p) == query_hash(qid[p])

Text(p) == ServiceQueries[qid[p]]

\* the call of p ends, returning r (or raising)
Finish(p, r) ==
    /\ pc' = [pc EXCEPT ![p] = "done"]
    /\ result' = [result EXCEPT ![p] = r]

Goto(p, label) ==
    /\ pc' = [pc EXCEPT ![p] = label]
    /\ UNCHANGED result

\* an os.remove that leaves the file where it is
RemoveSkipped(h) == UNCHANGED <<files, lastLive, unlinked>>

\* os.remove(cache_file): the name goes; a writer that holds the file open
\* goes on writing to the deleted file
Remove(h) ==
    /\ files' = [files EXCEPT ![h] = NoFile]
    /\ lastLive' = [lastLive EXCEPT ![h] = <<>>]
    /\ unlinked' = [q \in Procs |->
                      unlinked[q] \/ (pc[q] = "set_write" /\ query_hash(qid[q]) = h)]

(***************************************************************************)
(* The routes that call the service                                        *)
(***************************************************************************)
\* a call of IPScreenerService.analyze_component(title, summary, reference)
\* begins
BeginCall(p, i) ==
    /\ pc' = [pc EXCEPT ![p] = "get_exists"]
    /\ qid' = [qid EXCEPT ![p] = i]
    /\ UNCHANGED result

\* the /analyze route's 400 answer
Rejected(what) ==
    [BlankResult EXCEPT
       !.keys = {"success", "error"},
       !.error = [NoError EXCEPT !.msg = what]]

\* routes/ip_screener.py analyze_component, lines 18-56
RouteAnalyze(p, raw) ==
    /\ pc[p] = "idle"
    /\ calls < MaxCalls
    /\ calls' = calls + 1
    /\ LET component_name == strip(raw.name)
           component_description == strip(raw.desc)
       IN  IF component_name = <<>>
             THEN Finish(p, Rejected("component_name is required"))
                  /\ UNCHANGED qid
           ELSE IF component_description = <<>>
             THEN Finish(p, Rejected("component_description is required"))
                  /\ UNCHANGED qid
           ELSE BeginCall(p, QueryIndex(component_name, component_description,
                                        DefaultReference))
    /\ UNCHANGED <<files, envVars, variant, last_error, wts, unlinked,
                   attempts, wrote, removed, lastSubmit, lastLive>>

\* routes/ip_screener.py analyze_component_legacy, lines 109-138
RouteLegacy(p, component) ==
    /\ pc[p] = "idle"
    /\ calls < MaxCalls
    /\ calls' = calls + 1
    /\ BeginCall(p, QueryIndex(component.part_name, component.description,
                               LegacyReference(component.id)))
    /\ UNCHANGED <<files, envVars, variant, last_error, wts, unlinked,
                   attempts, wrote, removed, lastSubmit, lastLive>>

(***************************************************************************)
(* IPScreenerCache.get, as called at analyze_component line 334            *)
(***************************************************************************)
\* line 258: os.path.exists(cache_file)
GetExists(p) ==
    /\ pc[p] = "get_exists"
    /\ IF ~files[H(p)].exists
         THEN Goto(p, "is_throttled")
         ELSE Goto(p, "get_load")
    /\ UNCHANGED <<files, envVars, calls, qid, variant, last_error, wts,
                   unlinked, attempts, wrote, removed, lastSubmit, lastLive>>

\* lines 261-273 and analyze_component lines 335-338: open, json.load, the
\* expiry test, and the return of a hit
GetLoad(p) ==
    /\ pc[p] = "get_load"
    /\ LET f == files[H(p)]
           r == Parse(f.data)
       IN  IF ~f.exists
             THEN Finish(p, Raised("FileNotFoundError"))
           ELSE IF r.exc = ""
             THEN IF Expired(r.ts, now)
                    THEN Goto(p, "get_remove_expired")
                  ELSE IF r.result.keys # {}
                    THEN Finish(p, WithFromCache(r.result, TRUE))
                  ELSE Goto(p, "is_throttled")
           ELSE IF CaughtByGet(r.exc)
             THEN Goto(p, "get_remove_corrupt")
           ELSE Finish(p, Raised(r.exc))
    /\ UNCHANGED <<files, envVars, calls, qid, variant, last_error, wts,
                   unlinked, attempts, wrote, removed, lastSubmit, lastLive>>

\* lines 268-269: os.remove of an expired entry; its error is not caught
GetRemoveExpired(p) ==
    /\ pc[p] = "get_remove_expired"
    /\ IF ~files[H(p)].exists
         THEN /\ Finish(p, Raised("FileNotFoundError"))
              /\ UNCHANGED <<files, removed, unlinked, lastLive>>
         ELSE /\ Remove(H(p))
              /\ removed' = [removed EXCEPT ![p] = TRUE]
              /\ Goto(p, "is_throttled")
    /\ UNCHANGED <<envVars, calls, qid, variant, last_error, wts, attempts,
                   wrote, lastSubmit>>

\* lines 273-279: os.remove of a corrupted entry; its error is swallowed
GetRemoveCorrupt(p) ==
    /\ pc[p] = "get_remove_corrupt"
    /\ IF ~files[H(p)].exists
         THEN UNCHANGED <<files, removed, unlinked, lastLive>>
         ELSE /\ Remove(H(p))
              /\ removed' = [removed EXCEPT ![p] = TRUE]
    /\ Goto(p, "is_throttled")
    /\ UNCHANGED <<envVars, calls, qid, variant, last_error, wts, attempts,
                   wrote, lastSubmit>>

(***************************************************************************)
(* IPScreenerCache.is_throttled, as called at analyze_component line 341   *)
(***************************************************************************)
\* is_throttled, lines 296-311: any failure to read the entry answers False
is_throttled(h, t) ==
    /\ files[h].exists
    /\ Parse(files[h].data).exc = ""
    /\ TooRecent(Parse(files[h].data).ts, t)

\* analyze_component, lines 341-351
IsThrottled(p) ==
    /\ pc[p] = "is_throttled"
    /\ IF is_throttled(H(p), now)
         THEN Finish(p, ThrottledResult)
         ELSE Goto(p, "submit")
    /\ UNCHANGED <<files, envVars, calls, qid, variant, last_error, wts,
                   unlinked, attempts, wrote, removed, lastSubmit, lastLive>>

(***************************************************************************)
(* IPScreenerAPI.submit_query, as called at analyze_component line 355     *)
(***************************************************************************)
\* history: the response is HTTP 200 with a session token or result data
Acceptable(resp) ==
    /\ resp.kind = "http"
    /\ resp.status = 200
    /\ resp.body.json
    /\ \/ Truthy(resp.body.data.token)
       \/ Truthy(resp.body.token)
       \/ Truthy(resp.body.session)
       \/ Truthy(resp.body.ticket)
       \/ resp.body.results.kind # "absent"
       \/ resp.body.patents.kind # "absent"

\* IPScreenerAPIError(message, error_type) raised by submit_query
ValidationError(what) == ErrorResult([NoError EXCEPT !.msg = what], "validation")

\* the exhausted probe raised with the default-like error type "api_error"
AuthenticationAsApiError(last) ==
    ErrorResult([msg |-> "All authentication variants failed. Last error:",
                 last_error |-> last.desc, variant |-> last.variant],
                "api_error")

\* line 218
AuthenticationError(last) ==
    ErrorResult([msg |-> "All authentication variants failed. Last error:",
                 last_error |-> last.desc, variant |-> last.variant],
                "authentication")

\* lines 131-159: the length checks, then the loop starts at the first variant
SubmitQuery(p) ==
    /\ pc[p] = "submit"
    /\ IF Len(Text(p).title) > MaxTitleLen
         THEN /\ Finish(p, ValidationError("Title too long (max 200 characters)"))
              /\ UNCHANGED <<variant, lastSubmit>>
       ELSE IF Len(Text(p).summary) > MaxSummaryLen
         THEN /\ Finish(p, ValidationError("Summary too long (max 2000 characters)"))
              /\ UNCHANGED <<variant, lastSubmit>>
       ELSE /\ variant' = [variant EXCEPT ![p] = 1]
            /\ lastSubmit' = [lastSubmit EXCEPT ![H(p)] = now]
            /\ Goto(p, "probe")
    /\ UNCHANGED <<files, envVars, calls, qid, last_error, wts, unlinked,
                   attempts, wrote, removed, lastLive>>

\* lines 161-218: one request of the variant loop and what follows from its
\* response; on a return of submit_query, analyze_component lines 362-381 up
\* to the call of cache.set.  The locals of submit_query end with it.
Probe(p, resp) ==
    /\ pc[p] = "probe"
    /\ attempts' = [attempts EXCEPT
                      ![p] = Append(@, [variant |-> variant[p],
                                        accepted |-> Acceptable(resp),
                                        token |-> TryVariant(resp).outcome = "token"])]
    /\ LET r == TryVariant(resp)
           last == [desc |-> r.last_error, variant |-> variant[p]]
           res == WithFromCache(process_api_response(resp.body), FALSE)
       IN  IF r.outcome = "fail"
             THEN IF variant[p] = NumVariants
                    THEN /\ Finish(p, AuthenticationError(last))
                         /\ variant' = [variant EXCEPT ![p] = 0]
                         /\ last_error' = [last_error EXCEPT ![p] = NoLastError]
                    ELSE /\ variant' = [variant EXCEPT ![p] = @ + 1]
                         /\ last_error' = [last_error EXCEPT ![p] = last]
                         /\ UNCHANGED <<pc, result>>
             ELSE /\ variant' = [variant EXCEPT ![p] = 0]
                  /\ last_error' = [last_error EXCEPT ![p] = NoLastError]
                  /\ result' = [result EXCEPT ![p] = res]
                  /\ pc' = [pc EXCEPT ![p] = IF ShouldCache(res) THEN "set_open"
                                                               ELSE "done"]
    /\ UNCHANGED <<files, envVars, calls, qid, wts, unlinked, wrote,
                   removed, lastSubmit, lastLive>>

(***************************************************************************)
(* IPScreenerCache.set, as called at analyze_component lines 368 and 379   *)
(***************************************************************************)
\* lines 283-291: the timestamp is taken, then open(cache_file, 'w') creates
\* or truncates the file; a failure is logged and swallowed
SetOpen(p) ==
    /\ pc[p] = "set_open"
    /\ \E ok \in BOOLEAN :
         IF ok
           THEN /\ files' = [files EXCEPT ![H(p)] =
                               [exists |-> TRUE, data |-> <<>>]]
                /\ wts' = [wts EXCEPT ![p] = now]
                /\ wrote' = [wrote EXCEPT ![p] = TRUE]
                /\ Goto(p, "set_write")
           ELSE /\ Goto(p, "done")
                /\ UNCHANGED <<files, wts, wrote>>
    /\ attempts' = [attempts EXCEPT ![p] = <<>>]
    /\ UNCHANGED <<envVars, calls, qid, variant, last_error, unlinked,
                   removed, lastSubmit, lastLive>>

\* line 292 and the close: the record reaches the file that was opened (which
\* is no longer the cache file if that was deleted meanwhile); a failure is
\* logged and swallowed
SetWrite(p) ==
    /\ pc[p] = "set_write"
    /\ \E ok \in BOOLEAN :
         IF ok /\ ~unlinked[p]
           THEN /\ files' = [files EXCEPT ![H(p)].data =
                               Overlay(@, Serialize(wts[p], result[p]))]
                /\ lastLive' = [lastLive EXCEPT ![H(p)] = result[p].patents]
           ELSE UNCHANGED <<files, lastLive>>
    /\ Goto(p, "done")
    /\ wts' = [wts EXCEPT ![p] = 0]
    /\ unlinked' = [unlinked EXCEPT ![p] = FALSE]
    /\ UNCHANGED <<envVars, calls, qid, variant, last_error, attempts, wrote,
                   removed, lastSubmit>>

\* the caller takes the result; the process is free for another call
Return(p) ==
    /\ pc[p] = "done"
    /\ calls < MaxCalls
    /\ pc' = [pc EXCEPT ![p] = "idle"]
    /\ qid' = [qid EXCEPT ![p] = 1]
    /\ result' = [result EXCEPT ![p] = BlankResult]
    /\ attempts' = [attempts EXCEPT ![p] = <<>>]
    /\ wrote' = [wrote EXCEPT ![p] = FALSE]
    /\ removed' = [removed EXCEPT ![p] = FALSE]
    /\ UNCHANGED <<files, envVars, calls, variant, last_error, wts, unlinked,
                   lastSubmit, lastLive>>

(***************************************************************************)
(* Environment                                                             *)
(***************************************************************************)
\* The instants the clock shows, in order: an entry stored at 0 is seen just
\* inside and just outside the throttle window and the TTL, and so is an
\* entry stored when the first has expired.
Instant(k) ==
    LET period == ttl_hours * 60 + 1
        phase == k % 5
    IN  (k \div 5) * period
          + (IF phase = 0 THEN 0
             ELSE IF phase = 1 THEN throttle_minutes - 1
             ELSE IF phase = 2 THEN throttle_minutes
             ELSE IF phase = 3 THEN ttl_hours * 60
             ELSE ttl_hours * 60 + 1)

Tick ==
    /\ ticks < MaxTicks
    /\ ticks' = ticks + 1
    /\ now' = Instant(ticks + 1)
    /\ lastSubmit' = [h \in Hashes |->
                        IF lastSubmit[h] # NoneInt
                           /\ Instant(ticks + 1) - lastSubmit[h] < throttle_minutes
                          THEN lastSubmit[h] ELSE NoneInt]
    /\ UNCHANGED <<files, calls, corrupts, procVars, lastLive, directVars>>

\* a cache entry is damaged from outside the program
Corrupt(h, kind) ==
    /\ corrupts < MaxCorrupt
    /\ files[h].exists
    /\ Parse(files[h].data).exc = ""
    /\ corrupts' = corrupts + 1
    /\ files' = [files EXCEPT ![h].data = Damaged(kind)]
    /\ UNCHANGED <<now, ticks, calls, procVars, lastSubmit, lastLive,
                   directVars>>

Next ==
    \/ \E p \in Procs, raw \in RawInputs : RouteAnalyze(p, raw)
    \/ \E p \in Procs, c \in Components : RouteLegacy(p, c)
    \/ \E p \in Procs : GetExists(p)
    \/ \E p \in Procs : GetLoad(p)
    \/ \E p \in Procs : GetRemoveExpired(p)
    \/ \E p \in Procs : GetRemoveCorrupt(p)
    \/ \E p \in Procs : IsThrottled(p)
    \/ \E p \in Procs : SubmitQuery(p)
    \/ \E p \in Procs, resp \in StubResponses : Probe(p, resp)
    \/ \E p \in Procs : SetOpen(p)
    \/ \E p \in Procs : SetWrite(p)
    \/ \E p \in Procs : Return(p)
    \/ Tick
    \/ \E h \in Hashes, kind \in DamageKinds : Corrupt(h, kind)

Spec == Init /\ [][Next]_vars

(***************************************************************************)
(* Properties                                                              *)
(***************************************************************************)
Done(p) == pc[p] = "done"

\* the call of p returned a dictionary with success = False
ErrorReturned(p) ==
    /\ Done(p)
    /\ result[p].raised = ""
    /\ "success" \in result[p].keys
    /\ ~result[p].success

\* the entry of h is present (a complete record) and its age is at most the TTL
FreshEntry(h) ==
    /\ files[h].exists
    /\ Parse(files[h].data).exc = ""
    /\ now - Parse(files[h].data).ts <= ttl_hours * 60

\* C1: a call whose cache lookup reads an entry that is present and not
\* TTL-expired ends there: it returns the stored payload with from_cache = true
\* and has sent no upstream request; the patents it returns are those of the
\* successful call that stored the entry.
C1_FreshEntryIsServedFromCache ==
    [][\A p \in Procs :
         (pc[p] = "get_load" /\ pc'[p] # "get_load" /\ FreshEntry(H(p)))
            => /\ pc'[p] = "done"
               /\ result'[p] = [Parse(files[H(p)].data).result EXCEPT
                                  !.keys = @ \cup {"from_cache"},
                                  !.from_cache = TRUE]
               /\ result'[p].success
               /\ result'[p].patents = lastLive[H(p)]
               /\ attempts'[p] = <<>>]_vars

C1_Witness ==
    \E p \in Procs :
        /\ Done(p)
        /\ result[p].from_cache
        /\ result[p].patents # <<>>
        /\ attempts[p] = <<>>

\* every readable entry of the cache store holds a payload with success = true
EntriesSuccessful ==
    \A h \in Hashes :
        (files[h].exists /\ Parse(files[h].data).exc = "")
            => /\ "success" \in Parse(files[h].data).result.keys
               /\ Parse(files[h].data).result.success

\* C2 as claimed: every entry holds a payload with success = true, and a call
\* that ends in an error result leaves the cache store unchanged.
C2_ErrorCallLeavesStoreUnchanged ==
    /\ EntriesSuccessful
    /\ \A p \in Procs : ErrorReturned(p) => (~wrote[p] /\ ~removed[p])

\* C2 as amended: every readable entry holds a payload with success = true,
\* and a call that ends in an error result has written nothing to the cache
\* store (its cache lookup may have deleted the expired or corrupted entry of
\* its own fingerprint).
C2_ErrorCallWritesNothing ==
    /\ EntriesSuccessful
    /\ \A p \in Procs : ErrorReturned(p) => ~wrote[p]

C2_Witness ==
    \E p \in Procs :
        /\ ErrorReturned(p)
        /\ result[p].error_type = "authentication"
        /\ removed[p]
        /\ ~wrote[p]

\* C3: when a call starts an upstream submission for a fingerprint, no other
\* submission for that fingerprint was started less than the throttle window
\* before.
C3_SubmissionsThrottleWindowApart ==
    [][\A p \in Procs :
         (pc[p] = "submit" /\ pc'[p] = "probe")
            => lastSubmit[H(p)] = NoneInt]_vars

\* C4: every call of analyze_component returns a result object with a boolean
\* success field; no exception leaves it.
C4_AlwaysAResultObject ==
    \A p \in Procs :
        Done(p) => (result[p].raised = "" /\ "success" \in result[p].keys)

\* submit_query of p's call has returned or raised, and the requests it sent
\* are still on record
SubmitEnded(p) ==
    \/ pc[p] = "set_open"
    \/ Done(p) /\ result[p].error_type \in {"authentication", "processing"}

C6_AllVariantsFailed ==
    \A p \in Procs :
        (/\ Done(p)
         /\ Len(attempts[p]) = 4
         /\ \A i \in 1..4 : ~attempts[p][i].accepted)
            => /\ result[p].raised = ""
               /\ "success" \in result[p].keys
               /\ ~result[p].success
               /\ result[p].error_type = "authentication"
               /\ result[p].error.variant = 4
               /\ result[p].error.last_error
                     \in {"Authentication failed", "HTTP", "Exception in",
                          "Invalid JSON response", "No session token or results"}
               /\ ~result[p].from_cache
               /\ ~wrote[p]

C6_Witness ==
    \E p \in Procs :
        /\ Done(p)
        /\ Len(attempts[p]) = 4
        /\ ~attempts[p][4].accepted
        /\ result[p].error.last_error = "Authentication failed"

\* the entry of h is present and younger than the throttle window
RecentEntry(h) ==
    /\ files[h].exists
    /\ Parse(files[h].data).exc = ""
    /\ now - Parse(files[h].data).ts < throttle_minutes

\* C7: when the cache lookup has missed and the fingerprint is throttled, the
\* call returns success = false, error_type "throttled", throttled = true and
\* retry_after = throttle_minutes * 60, having sent no upstream request and
\* written nothing to the cache.
C7_ThrottledCall ==
    [][\A p \in Procs :
         (pc[p] = "is_throttled" /\ pc'[p] # "is_throttled" /\ RecentEntry(H(p)))
            => /\ pc'[p] = "done"
               /\ result'[p].raised = ""
               /\ {"success", "error_type", "throttled", "retry_after"}
                     \subseteq result'[p].keys
               /\ ~result'[p].success
               /\ result'[p].error_type = "throttled"
               /\ result'[p].throttled
               /\ result'[p].retry_after = 300
               /\ attempts'[p] = <<>>
               /\ ~wrote'[p]
               /\ files' = files]_vars

C7_Witness ==
    \E p \in Procs :
        /\ Done(p)
        /\ result[p].error_type = "throttled"
        /\ result[p].throttled

\* C8: a call whose component_name or component_description is empty never
\* gets as far as the fingerprint, the cache or the upstream service.
C8_EmptyInputRejectedFirst ==
    \A p \in Procs :
        pc[p] \notin {"idle", "done"}
            => (Text(p).title # <<>> /\ Text(p).summary # <<>>)

\* submit_query of p's call has ended (also by a validation error)
SubmitCalled(p) ==
    \/ SubmitEnded(p)
    \/ Done(p) /\ result[p].error_type = "validation"

\* C9 as claimed: a call that is neither served from cache nor throttled
\* makes exactly one upstream HTTP request.
C9_ExactlyOneRequest ==
    \A p \in Procs : SubmitCalled(p) => Len(attempts[p]) = 1

\* C9 as amended: a call that is neither served from cache nor throttled
\* makes one submit_query call, which sends no request when the input fails
\* validation and otherwise between one and four requests (one per variant
\* tried); it never polls for results.
C9_OneSubmissionUpToFourRequests ==
    \A p \in Procs :
        /\ Len(attempts[p]) <= 4
        /\ SubmitCalled(p) =>
             (Len(attempts[p]) = 0 <=> result[p].error_type = "validation")
        /\ pc[p] \in {"idle", "get_exists", "get_load", "get_remove_expired",
                      "get_remove_corrupt", "is_throttled", "submit"}
             => attempts[p] = <<>>

C9_Witness ==
    \E p \in Procs : pc[p] = "set_open" /\ Len(attempts[p]) = 4

\* C10: one submit_query call sends at most max_retries requests, and a
\* submission that has used them all up surfaces as an api_error.
C10_RetryCeiling ==
    \A p \in Procs :
        /\ Len(attempts[p]) <= max_retries
        /\ (Done(p) /\ Len(attempts[p]) >= max_retries
              /\ ~attempts[p][Len(attempts[p])].accepted)
             => result[p].error_type = "api_error"


(***************************************************************************)
(* IPScreenerAPI called directly: submit_query, then get_results           *)
(***************************************************************************)
\* submit_query, lines 131-133: rows = rows or default_rows; upper clamp
rows_sent(rows) ==
    LET r == IF ~rows.has \/ rows.val = 0 THEN default_rows ELSE rows.val
    IN  IF r > max_rows THEN max_rows ELSE r

\* a length check that already rejects a text of exactly the maximum length
LengthErrorAtLimit(title, summary) ==
    IF Len(title) >= MaxTitleLen THEN "Title too long (max 200 characters)"
    ELSE IF Len(summary) >= MaxSummaryLen
      THEN "Summary too long (max 2000 characters)"
    ELSE ""

\* submit_query, lines 136-139: the message of the validation error, or ""
LengthError(title, summary) ==
    IF Len(title) > MaxTitleLen THEN "Title too long (max 200 characters)"
    ELSE IF Len(summary) > MaxSummaryLen
      THEN "Summary too long (max 2000 characters)"
    ELSE ""

RowsArgs == {NoRows, Rows(0), Rows(0 - 5), Rows(1), Rows(max_rows),
             Rows(max_rows + 1)}

\* arguments of submit_query
ApiInputs ==
    { [title |-> Rep("x", MaxTitleLen), summary |-> Rep("y", MaxSummaryLen),
       rows |-> r] : r \in RowsArgs }
    \cup
    { [title |-> Rep("x", MaxTitleLen + 1), summary |-> Rep("y", MaxSummaryLen),
       rows |-> NoRows],
      [title |-> Rep("x", MaxTitleLen), summary |-> Rep("y", MaxSummaryLen + 1),
       rows |-> NoRows],
      [title |-> Rep("x", MaxTitleLen + 1), summary |-> Rep("y", MaxSummaryLen + 1),
       rows |-> NoRows] }

\* JSON objects of an HTTP 200 answer: every combination of the token fields
\* and of the result fields
ApiBodies ==
    { [json |-> TRUE, data |-> d, token |-> t, session |-> s, ticket |-> k,
       results |-> r, patents |-> ps] :
        d \in {NoData, DataDict(Absent), DataDict(""), DataDict("t1")},
        t \in {Absent, "", "t2"},
        s \in {Absent, "t3"},
        k \in {Absent, "t4"},
        r \in {NoList, List(<<>>)},
        ps \in {NoList, List(<<>>)} }

ApiResponses ==
    { Http(200, b) : b \in ApiBodies \cup {BadJson} }
        \cup { Http(401, EmptyBody), Http(500, EmptyBody), TransportException }

\* a request as the upstream sees it
Request(v, method, rows) ==
    [variant |-> v, method |-> method, rows |-> rows]

\* submit_query, lines 125-159
ApiSubmit(in) ==
    /\ api.pc = "idle"
    /\ api' = IF LengthError(in.title, in.summary) # ""
                THEN [ApiIdle EXCEPT !.pc = "raised",
                                     !.title = in.title,
                                     !.summary = in.summary,
                                     !.rows = rows_sent(in.rows),
                                     !.error_type = "validation"]
                ELSE [ApiIdle EXCEPT !.pc = "probe",
                                     !.title = in.title,
                                     !.summary = in.summary,
                                     !.rows = rows_sent(in.rows),
                                     !.variant = 1]
    /\ UNCHANGED <<files, now, ticks, corrupts, calls, procVars, lastSubmit,
                   lastLive, cacheCall, legacyVars, pure>>

\* submit_query, lines 161-218: one iteration of the variant loop
ApiProbe(resp) ==
    /\ api.pc = "probe"
    /\ LET r == TryVariant(resp)
           request == Request(api.variant, "POST", api.rows)
           last == [desc |-> r.last_error, variant |-> api.variant]
       IN  api' =
             IF r.outcome = "fail"
               THEN IF api.variant = NumVariants
                      THEN [api EXCEPT !.pc = "raised",
                                       !.sent = Append(@, request),
                                       !.resp = resp,
                                       !.last_error = last,
                                       !.variant = 0,
                                       !.error_type = "authentication"]
                      ELSE [api EXCEPT !.sent = Append(@, request),
                                       !.resp = resp,
                                       !.last_error = last,
                                       !.variant = @ + 1]
             ELSE [api EXCEPT !.pc = "returned",
                              !.sent = Append(@, request),
                              !.resp = resp,
                              !.last_error = NoLastError,
                              !.won = api.variant,
                              !.variant = 0,
                              !.token = IF r.outcome = "token"
                                          THEN SessionToken(resp.body)
                                          ELSE Absent]
    /\ UNCHANGED <<files, now, ticks, corrupts, calls, procVars, lastSubmit,
                   lastLive, cacheCall, legacyVars, pure>>

\* get_results, lines 220-241, called with the token submit_query returned
ApiGetResults(resp) ==
    /\ api.pc = "returned"
    /\ Truthy(api.token)
    /\ LET request == Request(1, "GET", 0)
       IN  api' =
             IF resp.kind = "exception"
               THEN [api EXCEPT !.pc = "raised", !.sent = Append(@, request),
                                !.resp = resp, !.exc = "RequestException"]
             ELSE IF resp.status # 200
               THEN [api EXCEPT !.pc = "raised", !.sent = Append(@, request),
                                !.resp = resp, !.error_type = "api_error"]
             ELSE IF ~resp.body.json
               THEN [api EXCEPT !.pc = "raised", !.sent = Append(@, request),
                                !.resp = resp, !.error_type = "response_format"]
             ELSE [api EXCEPT !.pc = "results", !.sent = Append(@, request),
                              !.resp = resp]
    /\ UNCHANGED <<files, now, ticks, corrupts, calls, procVars, lastSubmit,
                   lastLive, cacheCall, legacyVars, pure>>

\* the caller is done with the outcome
ApiReset ==
    /\ api.pc \in {"returned", "raised", "results"}
    /\ api' = ApiIdle
    /\ UNCHANGED <<files, now, ticks, corrupts, calls, procVars, lastSubmit,
                   lastLive, cacheCall, legacyVars, pure>>

ApiNext ==
    \/ \E in \in ApiInputs : ApiSubmit(in)
    \/ \E resp \in ApiResponses : ApiProbe(resp)
    \/ \E resp \in StubResponses : ApiGetResults(resp)
    \/ ApiReset

ApiSpec == Init /\ [][ApiNext]_vars

\* C11: submit_query accepts a title of up to 200 and a summary of up to 2000
\* characters; with a longer title or summary it raises a validation error
\* and has sent no request.
C11_LengthBoundary ==
    api.pc # "idle" =>
        /\ (Len(api.title) <= 200 /\ Len(api.summary) <= 2000)
              => api.error_type # "validation"
        /\ (Len(api.title) >= 201 \/ Len(api.summary) >= 2001)
              => /\ api.pc = "raised"
                 /\ api.error_type = "validation"
                 /\ api.exc = ""
                 /\ api.sent = <<>>

C11_Witness ==
    /\ api.pc = "probe"
    /\ Len(api.title) = 200
    /\ Len(api.summary) = 2000
    /\ api.sent # <<>>

\* C12: the rows field of every request submit_query sends lies in
\* 1..max_rows.
C12_RowsInRange ==
    \A i \in 1..Len(api.sent) :
        api.sent[i].method = "POST" => api.sent[i].rows \in 1..max_rows

\* C18: the request of get_results goes out with the authentication variant
\* that the preceding submit_query succeeded with, and it is the only request
\* get_results makes.
C18_ResultsReuseWinningVariant ==
    /\ \A i \in 1..Len(api.sent) :
           api.sent[i].method = "GET" => api.sent[i].variant = api.won
    /\ Cardinality({i \in 1..Len(api.sent) : api.sent[i].method = "GET"}) <= 1

\* C19: a failed submit_query or get_results reaches the caller as a typed
\* error of kind configuration, validation, authentication, api_error or
\* response_format; no other exception leaves either operation.
C19_FailuresAreTyped ==
    api.pc = "raised" =>
        /\ api.exc = ""
        /\ api.error_type \in {"configuration", "validation", "authentication",
                               "api_error", "response_format"}

\* the latest step was a submit_query request answered by HTTP 200 with a
\* JSON object
ProbedJson200 ==
    /\ api.sent # <<>>
    /\ api.sent[Len(api.sent)].method = "POST"
    /\ api.resp.kind = "http"
    /\ api.resp.status = 200
    /\ api.resp.body.json

\* a non-empty token is present at data.token, token, session or ticket
AnyToken(body) ==
    \/ body.data.kind = "dict" /\ Truthy(body.data.token)
    \/ Truthy(body.token)
    \/ Truthy(body.session)
    \/ Truthy(body.ticket)

HasResults(body) ==
    body.results.kind # "absent" \/ body.patents.kind # "absent"

\* C20: on an HTTP 200 JSON answer submit_query returns a session token
\* whenever a non-empty token is present at data.token, token, session or
\* ticket; with no token but a results or patents field it returns without a
\* token; with neither the variant has failed and the call has not returned.
C20_TokenFromAnyField ==
    ProbedJson200 =>
        LET body == api.resp.body
        IN  /\ AnyToken(body) => (api.pc = "returned" /\ Truthy(api.token))
            /\ (~AnyToken(body) /\ HasResults(body))
                  => (api.pc = "returned" /\ api.token = Absent)
            /\ (~AnyToken(body) /\ ~HasResults(body))
                  => api.pc \in {"probe", "raised"}

(***************************************************************************)
(* IPScreenerCache called directly by one caller: get, set, is_throttled   *)
(***************************************************************************)
\* payloads handed to set()
CachePayloads ==
    { WithFromCache(process_api_response(
                        [EmptyBody EXCEPT !.results = List(xs)]), FALSE) :
        xs \in {<<>>, <<RawEP, RawUS>>} }

\* a file opened for update, which keeps its text
TruncatedKeepsText(old) == old

\* open(cache_file, 'w'), line 291: the text of the file afterwards
Truncated(old) == <<>>

\* an os.remove that leaves the file where it is
UnlinkedStays(f) == f

\* os.remove(cache_file), lines 268 and 276
Unlinked(f) == NoFile

\* IPScreenerCache.get, lines 254-279, on the file f at time t
cache_get(f, t) ==
    LET r == Parse(f.data)
        none == [found |-> FALSE, ret |-> BlankResult, exc |-> "", post |-> f]
    IN  IF ~f.exists THEN none
        ELSE IF r.exc = ""
          THEN IF Expired(r.ts, t)
                 THEN [none EXCEPT !.post = Unlinked(f)]
                 ELSE [none EXCEPT !.found = TRUE, !.ret = r.result]
        ELSE IF CaughtByGet(r.exc)
          THEN [none EXCEPT !.post = Unlinked(f)]
        ELSE [none EXCEPT !.exc = r.exc]

SetModes == {"ok", "open_fails", "write_fails"}

\* IPScreenerCache.set, lines 281-294, on the file f at time t; a failure of
\* open or of the write is swallowed
cache_set(f, t, payload, mode) ==
    IF mode = "open_fails" THEN f
    ELSE IF mode = "write_fails"
      THEN [exists |-> TRUE, data |-> Truncated(f.data)]
    ELSE [exists |-> TRUE,
          data |-> Overlay(Truncated(f.data), Serialize(t, payload))]

\* history: the call before this one was a completed set() of h and the file
\* is still as that call left it
JustStored(h) ==
    IF /\ cacheCall.op = "set"
       /\ cacheCall.fp = h
       /\ cacheCall.mode = "ok"
       /\ files[h] = cacheCall.post
      THEN [valid |-> TRUE, at |-> cacheCall.at, payload |-> cacheCall.payload]
      ELSE NoEntry

OthersKept(h) == \A k \in CacheKeys \ {h} : files'[k] = files[k]

CacheFrame ==
    UNCHANGED <<now, ticks, corrupts, calls, procVars, lastSubmit, lastLive, api,
                legacyVars, pure>>

CacheGet(h) ==
    /\ LET g == cache_get(files[h], now)
       IN  /\ files' = [files EXCEPT ![h] = g.post]
           /\ cacheCall' = [NoCacheCall EXCEPT
                              !.op = "get", !.fp = h, !.at = now,
                              !.pre = files[h], !.post = g.post,
                              !.others = OthersKept(h),
                              !.entry = JustStored(h),
                              !.found = g.found, !.ret = g.ret, !.exc = g.exc]
    /\ CacheFrame

CacheSet(h, payload, mode) ==
    /\ LET post == cache_set(files[h], now, payload, mode)
       IN  /\ files' = [files EXCEPT ![h] = post]
           /\ cacheCall' = [NoCacheCall EXCEPT
                              !.op = "set", !.fp = h, !.at = now,
                              !.mode = mode, !.payload = payload,
                              !.pre = files[h], !.post = post,
                              !.others = OthersKept(h)]
    /\ CacheFrame

CacheIsThrottled(h) ==
    /\ cacheCall' = [NoCacheCall EXCEPT
                       !.op = "is_throttled", !.fp = h, !.at = now,
                       !.pre = files[h], !.post = files[h],
                       !.entry = JustStored(h),
                       !.flag = is_throttled(h, now)]
    /\ UNCHANGED files
    /\ CacheFrame

CacheNext ==
    \/ \E h \in CacheKeys : CacheGet(h)
    \/ \E h \in CacheKeys, payload \in CachePayloads, mode \in SetModes :
          CacheSet(h, payload, mode)
    \/ \E h \in CacheKeys : CacheIsThrottled(h)
    \/ Tick
    \/ \E h \in CacheKeys, kind \in DamageKinds : Corrupt(h, kind)

CacheSpec == Init /\ [][CacheNext]_vars

\* the age, at the time of the recorded call, of the record its file held
PreAge == cacheCall.at - Parse(cacheCall.pre.data).ts

PreReadable == cacheCall.pre.exists /\ Parse(cacheCall.pre.data).exc = ""

\* C13: a get(fp) that follows a completed set(fp, X), with the file untouched
\* in between and the TTL not elapsed, returns a payload equal to X, patent
\* list included.
C13_RoundTrip ==
    (/\ cacheCall.op = "get"
     /\ cacheCall.entry.valid
     /\ cacheCall.at - cacheCall.entry.at <= ttl_hours * 60)
        => /\ cacheCall.exc = ""
           /\ cacheCall.found
           /\ cacheCall.ret = cacheCall.entry.payload
           /\ cacheCall.ret.patents = cacheCall.entry.payload.patents

C13_Witness ==
    /\ cacheCall.op = "get"
    /\ cacheCall.entry.valid
    /\ cacheCall.at - cacheCall.entry.at = ttl_hours * 60
    /\ cacheCall.found
    /\ Len(cacheCall.ret.patents) = 2

\* C14: a get on an entry older than the TTL returns absent and deletes the
\* entry, so that the fingerprint then has no entry and is not throttled; a
\* get on an entry whose age is at most the TTL returns its payload and keeps
\* it.
C14_TtlExpiry ==
    (cacheCall.op = "get" /\ PreReadable) =>
        /\ PreAge > 1440
              => /\ ~cacheCall.found
                 /\ cacheCall.exc = ""
                 /\ ~cacheCall.post.exists
                 /\ files[cacheCall.fp] = cacheCall.post
                       => (~files[cacheCall.fp].exists
                           /\ ~is_throttled(cacheCall.fp, now)
                           /\ ~cache_get(files[cacheCall.fp], now).found)
        /\ PreAge <= 1440
              => /\ cacheCall.found
                 /\ cacheCall.ret = Parse(cacheCall.pre.data).result
                 /\ cacheCall.post = cacheCall.pre
        /\ cacheCall.others

C14_Witness ==
    /\ cacheCall.op = "get"
    /\ PreReadable
    /\ PreAge = 1441
    /\ ~cacheCall.found
    /\ ~files[cacheCall.fp].exists

\* C15: a get on a corrupted entry returns absent without raising and
\* deletes the entry.
C15_CorruptEntryIsAMiss ==
    (/\ cacheCall.op = "get"
     /\ cacheCall.pre.exists
     /\ Parse(cacheCall.pre.data).exc # "")
        => /\ cacheCall.exc = ""
           /\ ~cacheCall.found
           /\ ~cacheCall.post.exists

\* C16: after a set(fp, Y) that completed, the entry of fp holds Y with the
\* time of this set, whatever entry it had before: it is not expired and is
\* throttled at that time; the entries of the other fingerprints are as they
\* were.
C16_SetReplaces ==
    (cacheCall.op = "set" /\ cacheCall.mode = "ok") =>
        /\ cacheCall.post.exists
        /\ Parse(cacheCall.post.data).exc = ""
        /\ Parse(cacheCall.post.data).result = cacheCall.payload
        /\ Parse(cacheCall.post.data).ts = cacheCall.at
        /\ cacheCall.others
        /\ (files[cacheCall.fp] = cacheCall.post /\ now = cacheCall.at)
              => /\ is_throttled(cacheCall.fp, now)
                 /\ cache_get(files[cacheCall.fp], now).found

C16_Witness ==
    /\ cacheCall.op = "set"
    /\ cacheCall.mode = "ok"
    /\ PreReadable
    /\ Len(Parse(cacheCall.pre.data).result.patents) = 2
    /\ cacheCall.payload.patents = <<>>
    /\ PreAge > 0

\* C17: is_throttled(fp) answers true exactly when fp has a readable entry
\* younger than the throttle window: true right after a set(fp, _), false
\* once throttle_minutes have passed since it, false when fp has no entry;
\* and it changes no file.
C17_ThrottleWindow ==
    cacheCall.op = "is_throttled" =>
        /\ cacheCall.flag <=> (PreReadable /\ PreAge < 5)
        /\ ~cacheCall.pre.exists => ~cacheCall.flag
        /\ (cacheCall.entry.valid /\ cacheCall.at = cacheCall.entry.at)
              => cacheCall.flag
        /\ (cacheCall.entry.valid /\ cacheCall.at - cacheCall.entry.at >= 5)
              => ~cacheCall.flag
        /\ cacheCall.post = cacheCall.pre
        /\ cacheCall.others

C17_Witness ==
    /\ cacheCall.op = "is_throttled"
    /\ cacheCall.entry.valid
    /\ cacheCall.at - cacheCall.entry.at = 5
    /\ ~cacheCall.flag
    /\ files[cacheCall.fp].exists


(***************************************************************************)
(* One caller at a time: the /analyze route and the legacy route           *)
(* /ip-screener/analyze with its database cache, called one after another  *)
(***************************************************************************)
Caller == 1

LegacyError(status, error) ==
    [NoResponse EXCEPT !.status = status, !.error = error]

LegacyFrame ==
    UNCHANGED <<files, now, ticks, corrupts, variant, last_error, wts, unlinked,
                lastSubmit, lastLive, api, cacheCall, pure>>

\* analyze_component_legacy, lines 82-138: the request is read, the component
\* row fetched, the database cache looked up unless forceRefresh, and on a
\* miss the service is called
LegacyBegin(p, component_id, force_refresh) ==
    /\ pc[p] = "idle"
    /\ calls < MaxCalls
    /\ calls' = calls + 1
    /\ IF component_id = ""
         THEN /\ legacy' = [LegacyIdle EXCEPT
                              !.pc = "responded",
                              !.response = LegacyError(400, "Component ID is required")]
              /\ UNCHANGED <<pc, qid, result>>
       ELSE IF \A c \in LegacyComponents : c.id # component_id
         THEN /\ legacy' = [LegacyIdle EXCEPT
                              !.pc = "responded",
                              !.response = LegacyError(404, "Component not found")]
              /\ UNCHANGED <<pc, qid, result>>
       ELSE LET component == CHOOSE c \in LegacyComponents : c.id = component_id
                cached_result == db[LegacyQueryHash(component)]
            IN  IF /\ ~force_refresh
                   /\ cached_result.present
                   /\ cached_result.expires_at > now
                  THEN /\ legacy' = [pc |-> "responded",
                                     component |-> component,
                                     response |->
                                       [status |-> 200, error |-> "",
                                        cached |-> TRUE, hasData |-> TRUE,
                                        data |-> cached_result.data,
                                        api_success |-> cached_result.from_success]]
                       /\ UNCHANGED <<pc, qid, result>>
                  ELSE /\ legacy' = [pc |-> "calling", component |-> component,
                                     response |-> NoResponse]
                       /\ BeginCall(p, QueryIndex(component.part_name,
                                                  component.description,
                                                  LegacyReference(component.id)))
    /\ UNCHANGED <<db, attempts, wrote, removed>>
    /\ LegacyFrame

\* analyze_component_legacy, lines 140-178: the orchestrator result is
\* converted, stored in the database cache if it is successful, and answered;
\* an exception of the service or of the database is answered with a 500
LegacyEnd(p) ==
    /\ pc[p] = "done"
    /\ legacy.pc = "calling"
    /\ \E draw \in SimulationDraws, db_ok \in BOOLEAN :
         LET legacy_result ==
                 convert_to_legacy_format(result[p], legacy.component, draw)
             query_hash_ == LegacyQueryHash(legacy.component)
         IN  IF result[p].raised # ""
               THEN /\ legacy' = [legacy EXCEPT
                                    !.pc = "responded",
                                    !.response = LegacyError(500, "Database error")]
                    /\ UNCHANGED db
             ELSE IF LegacyStores(result[p]) /\ ~db_ok
               THEN /\ legacy' = [legacy EXCEPT
                                    !.pc = "responded",
                                    !.response = LegacyError(500, "Database error")]
                    /\ UNCHANGED db
             ELSE /\ db' = IF LegacyStores(result[p])
                             THEN [db EXCEPT ![query_hash_] =
                                     [present |-> TRUE,
                                      expires_at |-> now + legacy_cache_hours * 60,
                                      is_simulation |-> FALSE,
                                      data |-> legacy_result,
                                      from_success |-> result[p].success]]
                             ELSE db
                  /\ legacy' = [legacy EXCEPT
                                  !.pc = "responded",
                                  !.response =
                                    [status |-> 200, error |-> "",
                                     cached |-> FALSE, hasData |-> TRUE,
                                     data |-> legacy_result,
                                     api_success |-> result[p].success]]
    /\ pc' = [pc EXCEPT ![p] = "idle"]
    /\ qid' = [qid EXCEPT ![p] = 1]
    /\ result' = [result EXCEPT ![p] = BlankResult]
    /\ attempts' = [attempts EXCEPT ![p] = <<>>]
    /\ wrote' = [wrote EXCEPT ![p] = FALSE]
    /\ removed' = [removed EXCEPT ![p] = FALSE]
    /\ UNCHANGED calls
    /\ LegacyFrame

\* the /analyze route answers with the result of its call
AnalyzeReturn(p) ==
    /\ legacy.pc # "calling"
    /\ Return(p)

SeqNext ==
    \/ \E raw \in RawInputs : RouteAnalyze(Caller, raw)
    \/ \E id \in LegacyRequestIds, force \in BOOLEAN : LegacyBegin(Caller, id, force)
    \/ GetExists(Caller)
    \/ GetLoad(Caller)
    \/ GetRemoveExpired(Caller)
    \/ GetRemoveCorrupt(Caller)
    \/ IsThrottled(Caller)
    \/ SubmitQuery(Caller)
    \/ \E resp \in StubResponses : Probe(Caller, resp)
    \/ SetOpen(Caller)
    \/ SetWrite(Caller)
    \/ AnalyzeReturn(Caller)
    \/ LegacyEnd(Caller)
    \/ Tick
    \/ \E h \in Hashes, kind \in DamageKinds : Corrupt(h, kind)

SeqSpec == Init /\ [][SeqNext]_vars

\* the legacy route answered a request with data
LegacyAnswered ==
    /\ legacy.pc = "responded"
    /\ legacy.response.hasData

\* C21: an answer of the legacy route is flagged isSimulated exactly when its
\* data came from the simulation fallback, that is, from an orchestrator
\* result with success = False; a row of the database cache is written from a
\* successful result only and holds data flagged isSimulated = False, and so
\* does every answer served from the database cache.
C21_SimulationIsFlaggedAndNeverStored ==
    /\ LegacyAnswered =>
         /\ legacy.response.data.isSimulated <=> ~legacy.response.api_success
         /\ legacy.response.cached => ~legacy.response.data.isSimulated
    /\ \A k \in LegacyKeys :
         db[k].present =>
           /\ db[k].from_success
           /\ ~db[k].data.isSimulated
           /\ ~db[k].is_simulation

\* a simulated answer was given while the database cache holds live data of
\* an earlier request
C21_Witness ==
    /\ LegacyAnswered
    /\ ~legacy.response.cached
    /\ legacy.response.data.isSimulated
    /\ \E k \in LegacyKeys : db[k].present


(***************************************************************************)
(* The functions without state, called directly                            *)
(***************************************************************************)
PureFrame ==
    UNCHANGED <<files, now, ticks, corrupts, calls, procVars, lastSubmit,
                lastLive, api, cacheCall, legacyVars>>

\* _compute_query_hash called for x; y is the triple of the call before it
\* (op = "hash" once there are two calls to compare)
ComputeQueryHash(x) ==
    /\ pure' = [PureIdle EXCEPT
                  !.op = IF pure.op \in {"hash1", "hash"} THEN "hash" ELSE "hash1",
                  !.x = x, !.hx = compute_query_hash(x),
                  !.y = pure.x, !.hy = pure.hx]
    /\ PureFrame

\* upstream score values, in hundredths
ScoreValues == {NoScore, Score(-50), Score(0), Score(50), Score(100), Score(150)}
RelevanceValues == {NoScore, Score(120)}

\* _process_api_response called for a response with one patent
ProcessApiResponse(score, relevance_score) ==
    LET patent == [RawEP EXCEPT !.score = score,
                                !.relevance_score = relevance_score]
    IN  /\ pure' = [PureIdle EXCEPT
                      !.op = "process", !.patent = patent,
                      !.out = process_api_response(
                                [EmptyBody EXCEPT !.results = List(<<patent>>)])]
        /\ PureFrame

\* the service is constructed in an environment and /status is requested
Configure(ttl, throttle) ==
    LET env == [ttl |-> ttl, throttle |-> throttle]
        api_settings == ApiSettings(env)
        cache_settings == CacheSettings(api_settings)
    IN  /\ pure' = [PureIdle EXCEPT
                      !.op = "configure", !.env = env,
                      !.api = api_settings,
                      !.cache = cache_settings,
                      !.status = StatusSettings(cache_settings)]
        /\ PureFrame

PureNext ==
    \/ \E x \in Triples : ComputeQueryHash(x)
    \/ \E score \in ScoreValues, rel \in RelevanceValues :
         ProcessApiResponse(score, rel)
    \/ \E ttl \in EnvTtlHours, throttle \in EnvThrottleMinutes :
         Configure(ttl, throttle)

PureSpec == Init /\ [][PureNext]_vars

\* C22: the fingerprint is a function of the triple, and two distinct triples
\* never give the same hashed string.
C22_DistinctTriplesDistinctStrings ==
    pure.op = "hash" =>
      /\ pure.x = pure.y => pure.hx = pure.hy
      /\ pure.x # pure.y => pure.hx # pure.hy

\* C25: every normalized patent record has a relevance_score within [0, 1],
\* whatever score or relevance_score the upstream patent carries.
C25_RelevanceWithinUnitInterval ==
    pure.op = "process" =>
      \A i \in 1..Len(pure.out.patents) :
        /\ pure.out.patents[i].relevance_score >= 0
        /\ pure.out.patents[i].relevance_score <= 100

\* C26: the TTL and throttle window of the service's cache store, and the
\* ones /status reports, are the configured ones.
C26_CacheUsesConfiguredWindows ==
    pure.op = "configure" =>
      /\ pure.cache = pure.api
      /\ pure.status = pure.api
      /\ pure.api.cache_ttl_hours = IntOf(pure.env.ttl, 24)
      /\ pure.api.throttle_minutes = IntOf(pure.env.throttle, 5)


(***************************************************************************)
(* Two concurrent callers with different fingerprints: one posts to        *)
(* /analyze, the other asks the legacy route for a described component     *)
(***************************************************************************)
ApartNext ==
    \/ RouteAnalyze(1, [name |-> <<"a">>, desc |-> <<"d">>])
    \/ \E c \in DescribedComponents : RouteLegacy(2, c)
    \/ \E p \in Procs : GetExists(p)
    \/ \E p \in Procs : GetLoad(p)
    \/ \E p \in Procs : GetRemoveExpired(p)
    \/ \E p \in Procs : GetRemoveCorrupt(p)
    \/ \E p \in Procs : IsThrottled(p)
    \/ \E p \in Procs : SubmitQuery(p)
    \/ \E p \in Procs, resp \in StubResponses : Probe(p, resp)
    \/ \E p \in Procs : SetOpen(p)
    \/ \E p \in Procs : SetWrite(p)
    \/ \E p \in Procs : Return(p)
    \/ Tick
    \/ \E h \in Hashes, kind \in DamageKinds : Corrupt(h, kind)

ApartSpec == Init /\ [][ApartNext]_vars

\* p is inside a cache operation (get, is_throttled or set) of its call
InCacheOp(p) ==
    pc[p] \in {"get_exists", "get_load", "get_remove_expired",
               "get_remove_corrupt", "is_throttled", "set_open", "set_write"}

\* C23: cache operations on different fingerprints do not interfere: a step
\* of get, set or is_throttled on one fingerprint leaves the file of every
\* other fingerprint as it is, under every interleaving of two callers.
C23_OtherFingerprintsUntouched ==
    [][\A p \in Procs :
         (InCacheOp(p) /\ pc'[p] # pc[p]) =>
           \A h \in Hashes \ {query_hash(qid[p])} : files'[h] = files[h]]_vars

\* both callers, on different fingerprints, have truncated their files and
\* are about to write them
C23_Witness ==
    /\ query_hash(qid[1]) # query_hash(qid[2])
    /\ pc[1] = "set_write"
    /\ pc[2] = "set_write"
    /\ files[query_hash(qid[1])].exists
    /\ files[query_hash(qid[2])].exists


(***************************************************************************)
(* Two concurrent callers on the same fingerprint (Spec)                   *)
(***************************************************************************)
\* p completes a write that reaches the cache file, and no other set on the
\* same fingerprint is still between its open and its write
LastWriterCompletes(p) ==
    /\ pc[p] = "set_write"
    /\ pc'[p] = "done"
    /\ files'[H(p)] # files[H(p)]
    /\ \A q \in Procs \ {p} : ~(pc[q] = "set_write" /\ H(q) = H(p))

\* C24: when concurrent set calls on one fingerprint have all completed, the
\* stored entry is the complete record of one of the writers, never a
\* mixture of two records or a truncated one.
C24_ConcurrentSetsLeaveOneRecord ==
    [][\A p \in Procs :
         LastWriterCompletes(p) =>
           /\ Parse(files'[H(p)].data).exc = ""
           /\ Parse(files'[H(p)].data).result = result[p]]_vars

\* C30: a get that runs concurrently with a set on the same fingerprint never
\* destroys the entry being written: the file a writer holds open between its
\* open and its write is not deleted, so the write reaches the store.
C30_GetSparesEntryBeingWritten ==
    \A p \in Procs : pc[p] = "set_write" => ~unlinked[p]


(***************************************************************************)
(* One caller at a time (SeqSpec): throttling, hits and session tokens     *)
(***************************************************************************)
\* C27: in a sequential execution (the TTL is at least the throttle window)
\* analyze_component never returns a throttled result: when the lookup has
\* missed, no entry is there for is_throttled to find, because none existed
\* or get has just deleted it, and the call goes on to the upstream.
C27_SequentialCallsNeverThrottled ==
    /\ ttl_hours * 60 >= throttle_minutes
    /\ pc[Caller] = "is_throttled" => ~files[H(Caller)].exists
    /\ Done(Caller) =>
         /\ result[Caller].error_type # "throttled"
         /\ result[Caller] # ThrottledResult

\* a later call missed because get deleted the entry, passed the throttle
\* test and is about to submit
C27_Witness ==
    /\ pc[Caller] = "submit"
    /\ removed[Caller]
    /\ calls = 2

\* C28: a cache hit leaves the store unchanged: the step of get that reads a
\* fresh entry ends the call with that entry marked from_cache = True in the
\* returned value only; no file changes, the stored record keeps its
\* timestamp and its from_cache = False, and the call has neither written nor
\* deleted anything.
C28_HitLeavesStoreUnchanged ==
    [][(/\ pc[Caller] = "get_load"
        /\ FreshEntry(H(Caller))
        /\ pc'[Caller] # "get_load")
       => /\ pc'[Caller] = "done"
          /\ result'[Caller].raised = ""
          /\ result'[Caller].from_cache
          /\ result'[Caller].patents = Parse(files[H(Caller)].data).result.patents
          /\ files' = files
          /\ ~Parse(files'[H(Caller)].data).result.from_cache
          /\ Parse(files'[H(Caller)].data).ts = Parse(files[H(Caller)].data).ts
          /\ ~wrote'[Caller]
          /\ ~removed'[Caller]]_vars

\* a call was served from an entry written some time before, and the entry
\* is still there with its own timestamp
C28_Witness ==
    /\ Done(Caller)
    /\ result[Caller].from_cache
    /\ FreshEntry(H(Caller))
    /\ Parse(files[H(Caller)].data).ts < now
    /\ ~Parse(files[H(Caller)].data).result.from_cache

\* the submission of the caller ended with an accepted response that
\* carried a session token
TokenReturned ==
    /\ pc[Caller] # "probe"
    /\ attempts[Caller] # <<>>
    /\ attempts[Caller][Len(attempts[Caller])].token

\* C29: when the submission returns a session token, analyze_component sends
\* no further request (get_results is not called): the request that got the
\* token is the last one, the result is built from that response with
\* from_cache = False, and it goes to the cache if it is successful.
C29_TokenResponseIsFinal ==
    TokenReturned =>
      LET a == attempts[Caller]
          n == Len(a)
      IN  /\ a[n].accepted
          /\ a[n].variant = n
          /\ \A i \in 1..(n - 1) : ~a[i].token
          /\ result[Caller].raised = ""
          /\ "from_cache" \in result[Caller].keys
          /\ ~result[Caller].from_cache
          /\ result[Caller].success => pc[Caller] = "set_open"
          /\ ~result[Caller].success => Done(Caller)

\* the second variant got a token, and the result built from that response
\* is about to be cached
C29_Witness ==
    /\ TokenReturned
    /\ Len(attempts[Caller]) = 2
    /\ pc[Caller] = "set_open"
    /\ result[Caller].success

====
